---- MODULE Spec2Model ----
\* A model of eth_portal/bridge.py: the header/receipts bridge that encodes
\* chain data, validates it against the provider-asserted hashes, and pushes
\* it to a group of launched Portal (trin) nodes.
EXTENDS Integers, Sequences, FiniteSets, TLC

\* ---------------------------------------------------------------- bounds

\* Largest number of private keys handed to launch_trin_inserters.
MaxNodes == 2
\* Largest number of transactions in a fetched block.
MaxTxns == 2
\* Largest number of handle_new_header calls made inside one scope.
MaxNotifications == 2
\* Number of distinct 32-byte hash values the model tells apart.
HashSpace == 3
\* Largest block number; receipt encoding depends on the block number.
MaxBlockNumber == 1

\* ------------------------------------------------------ program constants

\* bridge.py:209, launch_trin(key, 9000 + idx)
BasePort == 9000
\* bridge.py:55, chain_id=1
chain_id == 1
\* web3_encoding: the selector byte of a header content key
HeaderSelector == 0
\* web3_encoding: the selector byte of a receipts content key
ReceiptsSelector == 2

\* ------------------------------------------------------------ data domains

Hashes == 0 .. (HashSpace - 1)

\* The transaction hash list of a block with n transactions.
TxnList(n) == [i \in 1 .. n |-> i]

\* What w3.eth.get_block can return: the provider-asserted hash together
\* with the header fields and the transaction hash list.
Blocks ==
    [hash : Hashes,
     number : 0 .. MaxBlockNumber,
     receiptsRoot : Hashes,
     transactions : {TxnList(n) : n \in 0 .. MaxTxns}]

\* The value of block_fields before any block was fetched.
NoBlock == [hash |-> 0, number |-> 0, receiptsRoot |-> 0, transactions |-> <<>>]

\* What w3.eth.wait_for_transaction_receipt can return for txn_hash.
Web3Receipts(txn_hash) == [transactionHash : {txn_hash}, status : {0, 1}]

NoContent == [key |-> <<>>, value |-> <<>>]

\* ---------------------------------------------------------- pure functions

RECURSIVE Flatten(_)
Flatten(seqs) ==
    IF seqs = <<>> THEN <<>> ELSE Head(seqs) \o Flatten(Tail(seqs))

\* rlp.encode of a small unsigned integer: 0 is the empty byte string (0x80),
\* a value below 0x80 is its own encoding.
RlpInt(n) == IF n = 0 THEN <<128>> ELSE <<n>>

\* rlp.encode of a list whose items are already encoded: 0xc0 + payload
\* length, then the payload.
RlpList(items) == <<192 + Len(Flatten(items))>> \o Flatten(items)

\* encode_hex: "0x" followed by two hex digits per byte.
encode_hex(bytes) ==
    [prefix |-> "0x",
     digits |-> Flatten([i \in 1 .. Len(bytes) |->
                            <<bytes[i] \div 16, bytes[i] % 16>>])]

RECURSIVE WeightedSum(_, _)
WeightedSum(bytes, i) ==
    IF i > Len(bytes) THEN 0 ELSE i * bytes[i] + WeightedSum(bytes, i + 1)

\* keccak: a digest of a byte string into the hash space.
keccak(bytes) == (WeightedSum(bytes, 1) + Len(bytes)) % HashSpace

\* block_fields_to_header: the header object built from the block fields.
block_fields_to_header(block_fields) ==
    [block_number |-> block_fields.number,
     receipt_root |-> block_fields.receiptsRoot]

\* rlp.encode(header): the field-ordered list encoding of a header.
rlp_encode_header(header) ==
    RlpList(<<RlpInt(header.receipt_root), RlpInt(header.block_number)>>)

\* header.hash as py-evm computes it: keccak of the header's rlp.
header_hash_of(header) == keccak(rlp_encode_header(header))

\* header_content_key / receipt_content_key: selector, chain id, block hash.
header_content_key(hash, chain) == <<HeaderSelector, chain, hash>>

receipt_content_key(hash, chain) == <<ReceiptsSelector, chain, hash>>

\* receipt_fields_to_receipt: the receipt format depends on the block number
\* (before the fork no status field is carried in the first position).
receipt_fields_to_receipt(receipt, block_number) ==
    IF block_number = 0
    THEN RlpList(<<RlpInt(receipt.status + 2), RlpInt(receipt.transactionHash)>>)
    ELSE RlpList(<<RlpInt(receipt.status), RlpInt(receipt.transactionHash)>>)

\* make_trie_root_and_nodes: the root of the trie mapping rlp(index) to the
\* encoded receipt, for the receipts in list order.
make_trie_root(receipts) ==
    keccak(Flatten([i \in 1 .. Len(receipts) |->
                       RlpInt(i - 1) \o receipts[i]]))

\* receipt_content_value: the encoding of the ordered receipt list.
receipt_content_value(receipts) == RlpList(receipts)

\* ------------------------------------------------------ validating encoders

\* A variant of block_fields_to_content without the hash comparisons.
block_fields_to_content_NoHashCheck(block_fields, chain) ==
    [ok |-> TRUE,
     key |-> header_content_key(block_fields.hash, chain),
     value |-> rlp_encode_header(block_fields_to_header(block_fields))]

\* block_fields_to_content (bridge.py:101-128): ok is FALSE where the code
\* raises ValidationError.
block_fields_to_content(block_fields, chain) ==
    LET header == block_fields_to_header(block_fields)
        header_rlp == rlp_encode_header(header)
    IN  IF keccak(header_rlp) # block_fields.hash
        THEN [ok |-> FALSE, key |-> <<>>, value |-> <<>>]
        ELSE IF header_hash_of(header) # block_fields.hash
        THEN [ok |-> FALSE, key |-> <<>>, value |-> <<>>]
        ELSE [ok |-> TRUE,
              key |-> header_content_key(block_fields.hash, chain),
              value |-> header_rlp]

\* A variant of encode_receipts_content without the root comparison.
encode_receipts_content_NoRootCheck(receipts_in, chain, header_hash, block_number, receipt_root) ==
    LET receipts == [i \in 1 .. Len(receipts_in) |->
                        receipt_fields_to_receipt(receipts_in[i], block_number)]
    IN  [ok |-> TRUE,
         key |-> receipt_content_key(header_hash, chain),
         value |-> receipt_content_value(receipts)]

\* A variant of encode_receipts_content that builds its key with the header
\* key function.
encode_receipts_content_HeaderKey(receipts_in, chain, header_hash, block_number, receipt_root) ==
    LET receipts == [i \in 1 .. Len(receipts_in) |->
                        receipt_fields_to_receipt(receipts_in[i], block_number)]
        calculated_root == make_trie_root(receipts)
    IN  IF calculated_root # receipt_root
        THEN [ok |-> FALSE, key |-> <<>>, value |-> <<>>]
        ELSE [ok |-> TRUE,
              key |-> header_content_key(header_hash, chain),
              value |-> receipt_content_value(receipts)]

\* encode_receipts_content (bridge.py:164-192): ok is FALSE where the code
\* raises ValidationError.
encode_receipts_content(receipts_in, chain, header_hash, block_number, receipt_root) ==
    LET receipts == [i \in 1 .. Len(receipts_in) |->
                        receipt_fields_to_receipt(receipts_in[i], block_number)]
        calculated_root == make_trie_root(receipts)
    IN  IF calculated_root # receipt_root
        THEN [ok |-> FALSE, key |-> <<>>, value |-> <<>>]
        ELSE [ok |-> TRUE,
              key |-> receipt_content_key(header_hash, chain),
              value |-> receipt_content_value(receipts)]

\* ------------------------------------------------------------------ state

VARIABLES
    keys,            \* number of private keys given to launch_trin_inserters
    web3_links,      \* the list built at bridge.py:208-211
    stack,           \* the contexts entered on the ExitStack, oldest first
    open,            \* the node sessions that are open
    scope,           \* "launching", "body", "exiting", "exited"
    error,           \* the exception leaving the scope, or "none"
    inserter_links,  \* PortalInserter._web3_links
    pc,              \* position inside handle_new_header
    block_fields,    \* the block record of the current notification
    web3_receipts,   \* the receipts collected so far
    content,         \* the key/value handed to push_history
    idx,             \* position of push_history's loop in _web3_links
    requests,        \* the make_request calls of the current notification
    outcome,         \* how the current notification ended, or "running"
    outcomes,        \* how the earlier notifications of this scope ended
    fetched          \* the block records get_block returned to the current notification

vars ==
    <<keys, web3_links, stack, open, scope, error, inserter_links, pc,
      block_fields, web3_receipts, content, idx, requests, outcome, outcomes,
      fetched>>

scope_vars == <<keys, web3_links, stack, open, scope, error, inserter_links>>

Init ==
    /\ keys \in 0 .. MaxNodes
    /\ web3_links = <<>>
    /\ stack = <<>>
    /\ open = {}
    /\ scope = "launching"
    /\ error = "none"
    /\ inserter_links = <<>>
    /\ pc = "idle"
    /\ block_fields = NoBlock
    /\ web3_receipts = <<>>
    /\ content = NoContent
    /\ idx = 1
    /\ requests = <<>>
    /\ outcome = "running"
    /\ outcomes = <<>>
    /\ fetched = <<>>

notification_vars ==
    <<pc, block_fields, web3_receipts, content, idx, requests, outcome, outcomes,
      fetched>>

\* ------------------------------------------------- launch_trin_inserters

\* A variant of the scope exit that exits only the newest context.
ExitStackClose_OnlyNewest(entered, sessions) ==
    IF entered = <<>> THEN sessions ELSE sessions \ {entered[Len(entered)]}

\* ExitStack.__exit__: every entered context is exited, newest first.
ExitStackClose(entered, sessions) ==
    sessions \ {entered[i] : i \in 1 .. Len(entered)}

\* bridge.py:208-211, one iteration: launch_trin for the next key succeeds
\* and its context is entered on the stack.
LaunchTrin ==
    /\ scope = "launching"
    /\ Len(web3_links) < keys
    /\ LET port == BasePort + Len(web3_links)
       IN  /\ stack' = Append(stack, port)
           /\ open' = open \cup {port}
           /\ web3_links' = Append(web3_links, port)
    /\ UNCHANGED <<keys, scope, error, inserter_links>>
    /\ UNCHANGED notification_vars

\* A variant of LaunchTrinFails in which the failed launch is tolerated and
\* an inserter over the nodes launched so far is yielded.
LaunchTrinFails_YieldsPartial ==
    /\ scope = "launching"
    /\ Len(web3_links) < keys
    /\ scope' = "body"
    /\ error' = "LaunchError"
    /\ inserter_links' = web3_links
    /\ UNCHANGED <<keys, web3_links, stack, open>>
    /\ UNCHANGED notification_vars

\* bridge.py:209, launch_trin raises: the comprehension is abandoned and the
\* exception leaves the with block.
LaunchTrinFails ==
    /\ scope = "launching"
    /\ Len(web3_links) < keys
    /\ scope' = "exiting"
    /\ error' = "LaunchError"
    /\ UNCHANGED <<keys, web3_links, stack, open, inserter_links>>
    /\ UNCHANGED notification_vars

\* bridge.py:212, yield PortalInserter(web3_links) (constructor at 26-30).
YieldInserter ==
    /\ scope = "launching"
    /\ Len(web3_links) = keys
    /\ inserter_links' = web3_links
    /\ scope' = "body"
    /\ UNCHANGED <<keys, web3_links, stack, open, error>>
    /\ UNCHANGED notification_vars

\* The body of the with statement ends: normally, or with the exception of
\* the notification that just failed.
BodyExit ==
    /\ scope = "body"
    /\ pc \in {"idle", "done", "failed"}
    /\ scope' = "exiting"
    /\ error' = IF pc = "failed" THEN outcome ELSE "none"
    /\ UNCHANGED <<keys, web3_links, stack, open, inserter_links>>
    /\ UNCHANGED notification_vars

\* bridge.py:207, the with ExitStack() block is left.
ExitStackExit ==
    /\ scope = "exiting"
    /\ open' = ExitStackClose(stack, open)
    /\ stack' = <<>>
    /\ scope' = "exited"
    /\ UNCHANGED <<keys, web3_links, error, inserter_links>>
    /\ UNCHANGED notification_vars

\* ------------------------------------------------------ handle_new_header

\* The caller takes the result of the finished notification and stays in the
\* body for the next one.
CallerContinues ==
    /\ scope = "body"
    /\ pc \in {"done", "failed"}
    /\ Len(outcomes) + 1 < MaxNotifications
    /\ outcomes' = Append(outcomes, outcome)
    /\ pc' = "idle"
    /\ block_fields' = NoBlock
    /\ web3_receipts' = <<>>
    /\ content' = NoContent
    /\ idx' = 1
    /\ requests' = <<>>
    /\ outcome' = "running"
    /\ fetched' = <<>>
    /\ UNCHANGED scope_vars

\* bridge.py:90, w3.eth.get_block(header_hash, full_transactions=False).
GetBlock ==
    /\ scope = "body"
    /\ pc = "idle"
    /\ \E b \in Blocks :
          /\ block_fields' = b
          /\ fetched' = Append(fetched, b)
    /\ pc' = "header_fetched"
    /\ UNCHANGED <<web3_receipts, content, idx, requests, outcome, outcomes>>
    /\ UNCHANGED scope_vars

\* A variant of EncodeHeader in which the ValidationError is caught and the
\* notification goes on to the receipts stage.
EncodeHeader_ErrorSwallowed ==
    /\ scope = "body"
    /\ pc = "header_fetched"
    /\ LET c == block_fields_to_content(block_fields, chain_id)
       IN  IF c.ok
           THEN /\ content' = [key |-> c.key, value |-> c.value]
                /\ idx' = 1
                /\ pc' = "header_push"
           ELSE /\ pc' = "receipts_wait"
                /\ UNCHANGED <<content, idx>>
    /\ UNCHANGED <<block_fields, web3_receipts, requests, outcome, outcomes, fetched>>
    /\ UNCHANGED scope_vars

\* bridge.py:93, block_fields_to_content; on success push_history is entered
\* (bridge.py:96, 36-37).
EncodeHeader ==
    /\ scope = "body"
    /\ pc = "header_fetched"
    /\ LET c == block_fields_to_content(block_fields, chain_id)
       IN  IF c.ok
           THEN /\ content' = [key |-> c.key, value |-> c.value]
                /\ idx' = 1
                /\ pc' = "header_push"
                /\ UNCHANGED outcome
           ELSE /\ pc' = "failed"
                /\ outcome' = "ValidationError"
                /\ UNCHANGED <<content, idx>>
    /\ UNCHANGED <<block_fields, web3_receipts, requests, outcomes, fetched>>
    /\ UNCHANGED scope_vars

\* The request push_history makes to the link at position i.
StoreRequest(i, result) ==
    [node |-> inserter_links[i],
     method |-> "portal_historyStore",
     params |-> <<encode_hex(content.key), encode_hex(content.value)>>,
     result |-> result]

\* A variant of the loop step that passes over a link.
NextLink_Skips(i) == i + 2

\* push_history's loop moves to the next link.
NextLink(i) == i + 1

\* A variant of MakeRequest that stops sending once an earlier notification
\* of the same inserter has failed.
MakeRequest_SkipsAfterFailure ==
    /\ scope = "body"
    /\ pc \in {"header_push", "receipts_push"}
    /\ idx <= Len(inserter_links)
    /\ requests' =
          IF \E n \in 1 .. Len(outcomes) : outcomes[n] # "Done"
          THEN requests
          ELSE Append(requests, StoreRequest(idx, "returned"))
    /\ idx' = NextLink(idx)
    /\ UNCHANGED <<pc, block_fields, web3_receipts, content, outcome, outcomes, fetched>>
    /\ UNCHANGED scope_vars

\* bridge.py:48-51, one iteration: make_request returns (its response is
\* discarded).
MakeRequest ==
    /\ scope = "body"
    /\ pc \in {"header_push", "receipts_push"}
    /\ idx <= Len(inserter_links)
    /\ requests' = Append(requests, StoreRequest(idx, "returned"))
    /\ idx' = NextLink(idx)
    /\ UNCHANGED <<pc, block_fields, web3_receipts, content, outcome, outcomes, fetched>>
    /\ UNCHANGED scope_vars

\* A variant of MakeRequestRaises that also removes the link whose request
\* raised from the inserter's collection.
MakeRequestRaises_DropsLink ==
    /\ scope = "body"
    /\ pc \in {"header_push", "receipts_push"}
    /\ idx <= Len(inserter_links)
    /\ requests' = Append(requests, StoreRequest(idx, "raised"))
    /\ pc' = "failed"
    /\ outcome' = "TransportError"
    /\ inserter_links' =
          SubSeq(inserter_links, 1, idx - 1)
             \o SubSeq(inserter_links, idx + 1, Len(inserter_links))
    /\ UNCHANGED <<block_fields, web3_receipts, content, idx, outcomes, fetched>>
    /\ UNCHANGED <<keys, web3_links, stack, open, scope, error>>

\* bridge.py:49, make_request raises: nothing in push_history, propagate_* or
\* handle_new_header catches it.
MakeRequestRaises ==
    /\ scope = "body"
    /\ pc \in {"header_push", "receipts_push"}
    /\ idx <= Len(inserter_links)
    /\ requests' = Append(requests, StoreRequest(idx, "raised"))
    /\ pc' = "failed"
    /\ outcome' = "TransportError"
    /\ UNCHANGED <<block_fields, web3_receipts, content, idx, outcomes, fetched>>
    /\ UNCHANGED scope_vars

\* A variant of HeaderPushed in which the receipts stage fetches the block
\* again instead of taking the record propagate_header returned.
HeaderPushed_Refetches ==
    /\ scope = "body"
    /\ pc = "header_push"
    /\ idx > Len(inserter_links)
    /\ pc' = "receipts_wait"
    /\ \E b \in Blocks :
          /\ block_fields' = b
          /\ fetched' = Append(fetched, b)
    /\ UNCHANGED <<web3_receipts, content, idx, requests, outcome, outcomes>>
    /\ UNCHANGED scope_vars

\* bridge.py:98 and 70-72: the header push_history returned, propagate_header
\* returns block_fields and propagate_receipts starts.
HeaderPushed ==
    /\ scope = "body"
    /\ pc = "header_push"
    /\ idx > Len(inserter_links)
    /\ pc' = "receipts_wait"
    /\ UNCHANGED <<block_fields, web3_receipts, content, idx, requests, outcome, outcomes, fetched>>
    /\ UNCHANGED scope_vars

\* A variant of WaitForTransactionReceipt that walks the transaction list
\* from its end.
WaitForTransactionReceipt_Reversed ==
    /\ scope = "body"
    /\ pc = "receipts_wait"
    /\ Len(web3_receipts) < Len(block_fields.transactions)
    /\ \E r \in Web3Receipts(block_fields.transactions[
                    Len(block_fields.transactions) - Len(web3_receipts)]) :
          web3_receipts' = Append(web3_receipts, r)
    /\ UNCHANGED <<pc, block_fields, content, idx, requests, outcome, outcomes, fetched>>
    /\ UNCHANGED scope_vars

\* bridge.py:145-148, one iteration: the receipt of the next transaction of
\* block_fields.transactions arrives.
WaitForTransactionReceipt ==
    /\ scope = "body"
    /\ pc = "receipts_wait"
    /\ Len(web3_receipts) < Len(block_fields.transactions)
    /\ \E r \in Web3Receipts(block_fields.transactions[Len(web3_receipts) + 1]) :
          web3_receipts' = Append(web3_receipts, r)
    /\ UNCHANGED <<pc, block_fields, content, idx, requests, outcome, outcomes, fetched>>
    /\ UNCHANGED scope_vars

\* A variant of EncodeReceipts in which the ValidationError is reported but
\* not raised: handle_new_header returns normally.
EncodeReceipts_ErrorLogged ==
    /\ scope = "body"
    /\ pc = "receipts_wait"
    /\ Len(web3_receipts) = Len(block_fields.transactions)
    /\ LET c == encode_receipts_content(web3_receipts, chain_id, block_fields.hash,
                                        block_fields.number, block_fields.receiptsRoot)
       IN  IF c.ok
           THEN /\ content' = [key |-> c.key, value |-> c.value]
                /\ idx' = 1
                /\ pc' = "receipts_push"
                /\ UNCHANGED outcome
           ELSE /\ pc' = "done"
                /\ outcome' = "ValidationError"
                /\ UNCHANGED <<content, idx>>
    /\ UNCHANGED <<block_fields, web3_receipts, requests, outcomes, fetched>>
    /\ UNCHANGED scope_vars

\* A variant of WaitForTransactionReceiptRaises in which the exception is
\* caught, the receipts stage is dropped and handle_new_header returns.
WaitForTransactionReceiptRaises_Swallowed ==
    /\ scope = "body"
    /\ pc = "receipts_wait"
    /\ Len(web3_receipts) < Len(block_fields.transactions)
    /\ pc' = "done"
    /\ outcome' = "Done"
    /\ UNCHANGED <<block_fields, web3_receipts, content, idx, requests, outcomes, fetched>>
    /\ UNCHANGED scope_vars

\* bridge.py:146, wait_for_transaction_receipt raises: the call passes no
\* timeout, so web3's own default applies and the call gives up with
\* TimeExhausted when the receipt does not arrive in time; nothing in
\* propagate_receipts or handle_new_header catches it.
WaitForTransactionReceiptRaises ==
    /\ scope = "body"
    /\ pc = "receipts_wait"
    /\ Len(web3_receipts) < Len(block_fields.transactions)
    /\ pc' = "failed"
    /\ outcome' = "TimeExhausted"
    /\ UNCHANGED <<block_fields, web3_receipts, content, idx, requests, outcomes, fetched>>
    /\ UNCHANGED scope_vars

\* bridge.py:152-158, encode_receipts_content; on success push_history is
\* entered (bridge.py:161, 36-37).
EncodeReceipts ==
    /\ scope = "body"
    /\ pc = "receipts_wait"
    /\ Len(web3_receipts) = Len(block_fields.transactions)
    /\ LET c == encode_receipts_content(web3_receipts, chain_id, block_fields.hash,
                                        block_fields.number, block_fields.receiptsRoot)
       IN  IF c.ok
           THEN /\ content' = [key |-> c.key, value |-> c.value]
                /\ idx' = 1
                /\ pc' = "receipts_push"
                /\ UNCHANGED outcome
           ELSE /\ pc' = "failed"
                /\ outcome' = "ValidationError"
                /\ UNCHANGED <<content, idx>>
    /\ UNCHANGED <<block_fields, web3_receipts, requests, outcomes, fetched>>
    /\ UNCHANGED scope_vars

\* bridge.py:161 and 72: the receipts push_history returned and
\* handle_new_header returns.
ReceiptsPushed ==
    /\ scope = "body"
    /\ pc = "receipts_push"
    /\ idx > Len(inserter_links)
    /\ pc' = "done"
    /\ outcome' = "Done"
    /\ UNCHANGED <<block_fields, web3_receipts, content, idx, requests, outcomes, fetched>>
    /\ UNCHANGED scope_vars

Next ==
    \/ LaunchTrin
    \/ LaunchTrinFails
    \/ YieldInserter
    \/ BodyExit
    \/ ExitStackExit
    \/ CallerContinues
    \/ GetBlock
    \/ EncodeHeader
    \/ MakeRequest
    \/ MakeRequestRaises
    \/ HeaderPushed
    \/ WaitForTransactionReceipt
    \/ WaitForTransactionReceiptRaises
    \/ EncodeReceipts
    \/ ReceiptsPushed

Spec == Init /\ [][Next]_vars

\* The next step of a running handle_new_header call: the code is one
\* thread of control, so exactly one of these is enabled while it runs.
NotificationStep ==
    \/ EncodeHeader
    \/ MakeRequest
    \/ MakeRequestRaises
    \/ HeaderPushed
    \/ WaitForTransactionReceipt
    \/ EncodeReceipts
    \/ ReceiptsPushed

\* The steps of a scope whose body makes one handle_new_header call.
OneNotificationNext ==
    \/ LaunchTrin
    \/ LaunchTrinFails
    \/ YieldInserter
    \/ BodyExit
    \/ ExitStackExit
    \/ GetBlock
    \/ WaitForTransactionReceiptRaises
    \/ NotificationStep

\* The behaviours of such a scope in which the sequential code keeps
\* running: every local step is taken, every node request returns or raises,
\* and the provider returns the receipt that is waited for.
FairSpec == Init /\ [][OneNotificationNext]_vars /\ WF_vars(NotificationStep)

\* ------------------------------------------------------------- properties

\* The links of the PortalInserter, by position.
Links == 1 .. Len(inserter_links)

\* The encoded header of the fetched block, and whether its hash is the hash
\* the provider asserted.
HeaderRlp == rlp_encode_header(block_fields_to_header(block_fields))

HeaderHashMatches == keccak(HeaderRlp) = block_fields.hash

\* The collected receipts in py-evm form, whether one was collected for
\* every transaction, and whether their trie root is the header's.
Receipts ==
    [i \in 1 .. Len(web3_receipts) |->
        receipt_fields_to_receipt(web3_receipts[i], block_fields.number)]

ReceiptsCollected == Len(web3_receipts) = Len(block_fields.transactions)

ReceiptsRootMatches == make_trie_root(Receipts) = block_fields.receiptsRoot

\* The parameters of the store request of the header record and of the
\* receipts record of the current notification.
HeaderParams ==
    <<encode_hex(header_content_key(block_fields.hash, chain_id)),
      encode_hex(HeaderRlp)>>

ReceiptsParams ==
    <<encode_hex(receipt_content_key(block_fields.hash, chain_id)),
      encode_hex(receipt_content_value(Receipts))>>

IsHeaderRequest(r) == r.params = HeaderParams

IsReceiptsRequest(r) == r.params = ReceiptsParams

\* The requests of one complete push of params: one per link, in link order.
FullPush(params) ==
    [i \in Links |->
        [node |-> inserter_links[i], method |-> "portal_historyStore",
         params |-> params, result |-> "returned"]]

SomeRequestRaised == \E k \in 1 .. Len(requests) : requests[k].result = "raised"

\* C1: every store request sent carries validated content: a header record
\* whose encoding hashes to the provider-asserted block hash, or a receipts
\* record, of one receipt per transaction, whose trie root is the header's
\* receiptsRoot.
C1_OnlyValidatedContentSent ==
    \A k \in 1 .. Len(requests) :
        /\ requests[k].method = "portal_historyStore"
        /\ \/ IsHeaderRequest(requests[k]) /\ HeaderHashMatches
           \/ /\ IsReceiptsRequest(requests[k])
              /\ HeaderHashMatches
              /\ ReceiptsCollected
              /\ ReceiptsRootMatches

\* C1 witness: a receipts record of a block with transactions was sent after
\* the header record.
C1_Witness ==
    /\ Len(requests) >= 2
    /\ IsHeaderRequest(requests[1])
    /\ IsReceiptsRequest(requests[Len(requests)])
    /\ ~IsHeaderRequest(requests[Len(requests)])
    /\ Len(block_fields.transactions) >= 1

\* C2: when the recomputed header hash differs from the asserted hash, the
\* notification is failed with a ValidationError, no receipt was requested
\* and no request was sent to any node.
C2_HeaderFailureStopsNotification ==
    (pc \notin {"idle", "header_fetched"} /\ ~HeaderHashMatches)
        => /\ pc = "failed"
           /\ outcome = "ValidationError"
           /\ web3_receipts = <<>>
           /\ requests = <<>>

\* C2 witness: a block with transactions failed header validation while
\* nodes were linked.
C2_Witness ==
    /\ pc = "failed"
    /\ ~HeaderHashMatches
    /\ Len(block_fields.transactions) >= 1
    /\ Len(inserter_links) >= 1

\* The receipts validation of the current notification was reached: the
\* header push returned and every receipt was collected.
ReceiptsValidationReached ==
    /\ pc \in {"receipts_push", "done", "failed"}
    /\ HeaderHashMatches
    /\ ReceiptsCollected
    /\ ~(outcome = "TransportError" /\ Len(requests) <= Len(inserter_links))

\* C3: when the header validated and the root of the collected receipts
\* differs from receiptsRoot, the notification is failed with a
\* ValidationError, no receipts record was sent, and the header record was
\* sent to every node.
C3_ReceiptsFailureKeepsHeaderPush ==
    (ReceiptsValidationReached /\ ~ReceiptsRootMatches)
        => /\ pc = "failed"
           /\ outcome = "ValidationError"
           /\ requests = FullPush(HeaderParams)

\* C3 witness: a block with transactions failed receipts validation after
\* its header was pushed to two or more nodes.
C3_Witness ==
    /\ ReceiptsValidationReached
    /\ ~ReceiptsRootMatches
    /\ Len(block_fields.transactions) >= 1
    /\ Len(requests) >= 2

\* C4: as claimed, a notification whose header hash and receipts root both
\* validate ends without error after exactly two pushes, the header record
\* to every node and then the receipts record to every node.
C4_TwoPushesNoError ==
    (pc \in {"done", "failed"} /\ HeaderHashMatches /\ ReceiptsCollected
        /\ ReceiptsRootMatches)
        => /\ outcome = "Done"
           /\ requests = FullPush(HeaderParams) \o FullPush(ReceiptsParams)

\* The parameters push_history sends for the content it was handed.
ContentParams == <<encode_hex(content.key), encode_hex(content.value)>>

\* The requests of the push in progress: one per link before idx.
PushedSoFar ==
    [i \in 1 .. (idx - 1) |->
        [node |-> inserter_links[i], method |-> "portal_historyStore",
         params |-> ContentParams, result |-> "returned"]]

\* C5: while no request raises, a push sends one request to each link, in
\* the order the links were established, all with the same hex key and value;
\* a push that returned has sent to every link exactly once.
C5_PushReachesEveryLinkInOrder ==
    /\ \A i \in Links : inserter_links[i] = BasePort + (i - 1)
    /\ pc = "header_push"
        => idx <= Len(inserter_links) + 1 /\ requests = PushedSoFar
    /\ pc = "receipts_wait" => requests = FullPush(ContentParams)
    /\ pc = "receipts_push"
        => /\ idx <= Len(inserter_links) + 1
           /\ requests = FullPush(HeaderParams) \o PushedSoFar
    /\ pc = "done"
        => requests = FullPush(HeaderParams) \o FullPush(ContentParams)

\* C5 witness: a header push to two or more links returned.
C5_Witness ==
    /\ pc = "receipts_wait"
    /\ Len(inserter_links) >= 2
    /\ Len(requests) = Len(inserter_links)

\* C6: as claimed, when the request to one link raised, every later link
\* still got its request of the same push.
C6_LaterLinksStillAttempted ==
    pc \in {"done", "failed"}
        => \A k \in 1 .. Len(requests) :
              requests[k].result = "raised"
                => \A j \in Links :
                      inserter_links[j] > requests[k].node
                        => \E m \in (k + 1) .. Len(requests) :
                              /\ requests[m].node = inserter_links[j]
                              /\ requests[m].params = requests[k].params

\* C7: as claimed, a request that raised does not end the notification with
\* the transport error; the receipts stage still runs.
C7_TransportFailureNotFatal ==
    (pc \in {"done", "failed"} /\ SomeRequestRaised)
        => /\ outcome \in {"Done", "ValidationError"}
           /\ ReceiptsCollected

\* C8: once the scope of launch_trin_inserters is left, normally or by an
\* exception, no launched node session is open.
C8_SessionsClosedAtScopeExit ==
    scope = "exited" => open = {} /\ stack = <<>>

\* C8 witness: the scope was left by the exception of a failed notification
\* after two or more sessions were opened.
C8_Witness ==
    /\ scope = "exited"
    /\ error \in {"ValidationError", "TransportError"}
    /\ Len(web3_links) >= 2

\* C9: as claimed, a notification that ended with a ValidationError has
\* pushed nothing to any node.
C9_NoPushOnValidationError ==
    outcome = "ValidationError" => pc = "failed" /\ requests = <<>>

\* C9: as amended, a notification that ended with a ValidationError is failed
\* and has pushed nothing of the stage that failed: nothing at all after a
\* header failure, and exactly the header record to every node after a
\* receipts failure.
C9_NoPushOfFailedStage ==
    outcome = "ValidationError"
        => /\ pc = "failed"
           /\ \/ ~HeaderHashMatches /\ requests = <<>>
              \/ /\ HeaderHashMatches
                 /\ ReceiptsCollected
                 /\ ~ReceiptsRootMatches
                 /\ requests = FullPush(HeaderParams)

\* C9 witness: a receipts ValidationError after the header record was sent.
C9_Witness ==
    /\ outcome = "ValidationError"
    /\ HeaderHashMatches
    /\ Len(requests) >= 1

\* What a notification sends and how it ends when no request raises, from
\* its own block, its own receipts and the links alone.
ExpectedRequests ==
    IF ~HeaderHashMatches THEN <<>>
    ELSE FullPush(HeaderParams)
            \o (IF ReceiptsCollected /\ ReceiptsRootMatches
                THEN FullPush(ReceiptsParams) ELSE <<>>)

ExpectedOutcome ==
    IF HeaderHashMatches /\ ~ReceiptsCollected THEN "TimeExhausted"
    ELSE IF HeaderHashMatches /\ ReceiptsRootMatches
    THEN "Done" ELSE "ValidationError"

AsReturned(reqs) ==
    [k \in 1 .. Len(reqs) |-> [reqs[k] EXCEPT !.result = "returned"]]

\* C10: the requests and the outcome of a finished notification are
\* determined by its own block, its own receipts, the links and how the
\* nodes answered its own requests, whatever the earlier notifications did:
\* with no request raised they are ExpectedRequests and ExpectedOutcome, and
\* otherwise the requests are those up to the one that raised.
C10_NoCrossNotificationState ==
    pc \in {"done", "failed"}
        => IF SomeRequestRaised
           THEN /\ outcome = "TransportError"
                /\ requests[Len(requests)].result = "raised"
                /\ Len(requests) <= Len(ExpectedRequests)
                /\ AsReturned(requests)
                     = SubSeq(ExpectedRequests, 1, Len(requests))
           ELSE /\ outcome = ExpectedOutcome
                /\ requests = ExpectedRequests

\* C10 witness: a notification pushed both records and ended Done after an
\* earlier notification of the same inserter had failed.
C10_Witness ==
    /\ pc = "done"
    /\ Len(outcomes) >= 1
    /\ outcomes[1] # "Done"
    /\ Len(requests) >= 2

\* C11: the stages run in sequence: a receipt is asked for only after the
\* header request went to every link; the receipts are asked for and kept in
\* the order of the block's transaction list; and the receipts are encoded,
\* validated and pushed only once there is one for every transaction.
C11_StagesInSequence ==
    /\ (pc \in {"receipts_wait", "receipts_push", "done"} \/ web3_receipts # <<>>)
        => /\ Len(requests) >= Len(inserter_links)
           /\ SubSeq(requests, 1, Len(inserter_links)) = FullPush(HeaderParams)
    /\ Len(web3_receipts) <= Len(block_fields.transactions)
    /\ \A i \in 1 .. Len(web3_receipts) :
          web3_receipts[i].transactionHash = block_fields.transactions[i]
    /\ (pc \in {"receipts_push", "done"}
          \/ \E k \in 1 .. Len(requests) : IsReceiptsRequest(requests[k]))
        => ReceiptsCollected

\* C11 witness: a block with two or more transactions went through both
\* stages with a node linked.
C11_Witness ==
    /\ pc = "done"
    /\ Len(block_fields.transactions) >= 2
    /\ Len(inserter_links) >= 1

\* C12: once the PortalInserter is constructed, no step changes its link
\* collection: no push, no notification, no failure and no scope exit adds,
\* removes or reorders a link.
C12_LinksFixedAfterConstruction ==
    [][scope # "launching" => inserter_links' = inserter_links]_vars

\* C12 witness: a second notification's push failed on an inserter that
\* still holds its two or more links.
C12_Witness ==
    /\ pc = "failed"
    /\ outcome = "TransportError"
    /\ Len(outcomes) >= 1
    /\ Len(inserter_links) >= 2
    /\ Len(inserter_links) = keys

\* The hex digits of a content key after its selector byte: the chain id and
\* the block hash.
KeyAfterSelector(key_hex) == SubSeq(key_hex.digits, 3, Len(key_hex.digits))

\* C13: within a notification the header key is the header selector and the
\* receipts key is the receipts selector, each followed by the same chain id
\* and the same validated block hash, so a receipts request never carries
\* the key of the header request.
C13_KeysShareHashDifferBySelector ==
    \A k \in 1 .. Len(requests) :
        LET key == requests[k].params[1]
        IN  /\ HeaderHashMatches
            /\ IF k <= Len(inserter_links)
               THEN key = encode_hex(<<HeaderSelector, chain_id, block_fields.hash>>)
               ELSE /\ key = encode_hex(<<ReceiptsSelector, chain_id, block_fields.hash>>)
                    /\ key # requests[1].params[1]
                    /\ KeyAfterSelector(key)
                         = KeyAfterSelector(requests[1].params[1])

\* C13 witness: both records of a block were pushed to a node.
C13_Witness ==
    /\ pc = "done"
    /\ Len(inserter_links) >= 1
    /\ Len(requests) = 2 * Len(inserter_links)
    /\ block_fields.hash # 0

\* The ports of the sessions launched so far.
LaunchedPorts == {web3_links[i] : i \in 1 .. Len(web3_links)}

\* C14: startup is all-or-nothing. When a launch fails, the scope is left
\* without an inserter having been yielded and without the body having run,
\* and the sessions opened before the failure are closed at scope exit;
\* when the body runs, the inserter holds one open link per key, in key
\* order.
C14_StartupAllOrNothing ==
    /\ error = "LaunchError"
        => /\ scope \in {"exiting", "exited"}
           /\ Len(web3_links) < keys
           /\ inserter_links = <<>>
           /\ pc = "idle" /\ block_fields = NoBlock /\ requests = <<>>
           /\ outcome = "running" /\ outcomes = <<>>
           /\ scope = "exited" => open = {}
    /\ scope = "body"
        => /\ Len(inserter_links) = keys
           /\ \A i \in Links : inserter_links[i] = BasePort + (i - 1)
           /\ open = {inserter_links[i] : i \in Links}
    /\ scope = "launching" => open = LaunchedPorts /\ inserter_links = <<>>

\* C14 witness: a launch failed after at least one session was opened, and
\* the scope was left.
C14_Witness ==
    /\ scope = "exited"
    /\ error = "LaunchError"
    /\ Len(web3_links) >= 1

\* Whether the header built from block record b hashes to b's asserted hash.
HeaderValidFor(b) == keccak(rlp_encode_header(block_fields_to_header(b))) = b.hash

\* C16: a notification fetches the block record once, and its receipts
\* stage works on that record: the header of the fetched record passed hash
\* validation before any receipt was asked for, the receipts are those of
\* its transaction list, and a receipts record is sent only when the root of
\* the receipts, encoded for its block number, is its receiptsRoot, under a
\* key built from its hash.
C16_ReceiptsUseValidatedBlock ==
    /\ pc = "idle" => fetched = <<>>
    /\ pc # "idle" => Len(fetched) = 1 /\ block_fields = fetched[1]
    /\ (pc \in {"receipts_wait", "receipts_push", "done"} \/ web3_receipts # <<>>)
        => /\ HeaderValidFor(fetched[1])
           /\ Len(web3_receipts) <= Len(fetched[1].transactions)
           /\ \A i \in 1 .. Len(web3_receipts) :
                 web3_receipts[i].transactionHash = fetched[1].transactions[i]
    /\ \A k \in 1 .. Len(requests) :
          k > Len(inserter_links)
            => /\ HeaderValidFor(fetched[1])
               /\ Len(web3_receipts) = Len(fetched[1].transactions)
               /\ make_trie_root([i \in 1 .. Len(web3_receipts) |->
                                    receipt_fields_to_receipt(web3_receipts[i],
                                                              fetched[1].number)])
                    = fetched[1].receiptsRoot
               /\ requests[k].params[1]
                    = encode_hex(receipt_content_key(fetched[1].hash, chain_id))

\* C16 witness: the receipts record of a block with transactions was sent
\* to a node.
C16_Witness ==
    /\ pc = "done"
    /\ Len(fetched) = 1
    /\ Len(fetched[1].transactions) >= 1
    /\ Len(requests) >= 2

\* A notification is waiting for a receipt the provider has not supplied.
WaitingForReceipt == pc = "receipts_wait" /\ ~ReceiptsCollected

\* Every notification that fetched its block reaches a terminal state.
NotificationTerminates == (pc = "header_fetched") ~> (pc \in {"done", "failed"})

\* C15: as claimed, under fairness every notification reaches a terminal
\* state, and a notification whose receipt is not supplied leaves the
\* receipt wait by no step at all: it stays there.
C15_WaitsForever ==
    /\ NotificationTerminates
    /\ [][WaitingForReceipt => pc' = "receipts_wait"]_vars

\* C15: as amended, under fairness every notification reaches a terminal
\* state; a notification whose receipt is not supplied sends nothing, and
\* leaves the receipt wait only by the provider call raising, which fails
\* the notification with that error.
C15_WaitEndsOnlyByProvider ==
    /\ NotificationTerminates
    /\ [][WaitingForReceipt
            => /\ requests' = requests
               /\ \/ pc' = "receipts_wait"
                  \/ pc' = "failed" /\ outcome' = "TimeExhausted"]_vars

\* C15 witness: the provider call gave up on the second receipt of a block,
\* after the header was pushed and one receipt had arrived.
C15_Witness ==
    /\ pc = "failed"
    /\ outcome = "TimeExhausted"
    /\ Len(web3_receipts) >= 1
    /\ Len(requests) >= 1

====
